---------------------------- MODULE Spec2Model ----------------------------
(***************************************************************************)
(* A model of the DOCX -> XBRL fact pipeline (scripts/extract_docx.py,     *)
(* scripts/normalize.py, scripts/emit_xbrl.py, scripts/validate_arelle.py, *)
(* scripts/run_pipeline.py).                                               *)
(*                                                                         *)
(* A Python str is modelled as a sequence of one-character strings, so     *)
(* that strip, replace, split, re.match and float are computed character   *)
(* by character as the interpreter computes them.                          *)
(***************************************************************************)
EXTENDS Integers, Sequences, FiniteSets, TLC

VARIABLES
    raw_value,        \* argument of TransformationRegistry.transform
    transform_name,   \* argument of TransformationRegistry.transform
    result,           \* what the call returned or raised ("none" before it)
    contexts,         \* XBRLEmitter.contexts: the ids of the loaded contexts
    units,            \* XBRLEmitter.units: the ids of the loaded units
    raw_facts,        \* the list FactNormalizer.normalize iterates over
    idx,              \* how many raw facts the loop of normalize has consumed
    canonical_facts,  \* normalize's local list canonical_facts
    errors,           \* normalize's local list errors
    pc,               \* position of the run
    exit_code,        \* process exit code (-1 while the process runs)
    canonical_file,   \* out/canonical_facts.json
    report_xbrl,      \* out/report.xbrl
    docx,             \* the source document at docx_path
    extractor_facts,  \* ContentControlExtractor.facts (self.facts)
    raw_file,         \* out/raw_facts.json
    calls,            \* how many extract() calls the extractor has served
    validate,         \* Pipeline.validate (False under --no-validate)
    basic,            \* --basic of validate_arelle.py
    engine,           \* how the validation engine behaved ("unused" before)
    validation_passed \* stats['validation_passed'] / success ("unset" before)

vars == <<raw_value, transform_name, result, contexts, units, raw_facts, idx,
          canonical_facts, errors, pc, exit_code, canonical_file, report_xbrl,
          docx, extractor_facts, raw_file, calls, validate, basic, engine,
          validation_passed>>

extract_vars == <<docx, extractor_facts, raw_file, calls>>

validate_vars == <<validate, basic, engine, validation_passed>>

-----------------------------------------------------------------------------
(* Bounds of the model.                                                    *)

\* longest arbitrary string handed to a transform
MaxLen == 3
\* longest string over the numeric alphabet handed to a transform
MaxNumLen == 4
\* largest day number of the generated dates
MaxDay == 33
\* largest month number of the generated dates
MaxMonth == 13
\* longest raw-fact list handed to normalize
MaxFacts == 2
MaxRegions == 3
MaxRuns == 2
MaxRunLen == 2
MaxCalls == 3

-----------------------------------------------------------------------------
(* Python str primitives.                                                  *)

Digits == <<"0", "1", "2", "3", "4", "5", "6", "7", "8", "9">>

DigitChars == {Digits[i] : i \in 1..10}

\* str.isspace() over the characters of the model
Whitespace == {" ", "\t", "\n"}

UpperAZ == {"A", "B", "C", "D", "E", "F", "G", "H", "I", "J", "K", "L", "M",
            "N", "O", "P", "Q", "R", "S", "T", "U", "V", "W", "X", "Y", "Z"}

IsDigit(c) == c \in DigitChars

IsSpace(c) == c \in Whitespace

DigitVal(c) == CHOOSE i \in 0..9 : Digits[i + 1] = c

\* int(s) for a string of decimal digits
RECURSIVE IntOf(_)
IntOf(s) ==
    IF s = <<>> THEN 0
    ELSE 10 * IntOf(SubSeq(s, 1, Len(s) - 1)) + DigitVal(s[Len(s)])

RECURSIVE LStrip(_)
LStrip(s) ==
    IF s # <<>> /\ IsSpace(Head(s)) THEN LStrip(Tail(s)) ELSE s

RECURSIVE RStrip(_)
RStrip(s) ==
    IF s # <<>> /\ IsSpace(s[Len(s)]) THEN RStrip(SubSeq(s, 1, Len(s) - 1)) ELSE s

\* str.strip()
Strip(s) == RStrip(LStrip(s))

\* s.replace(c, '')
Remove(s, c) == SelectSeq(s, LAMBDA x : x # c)

\* s.replace(c, d) for single characters
Replace(s, c, d) == [i \in 1..Len(s) |-> IF s[i] = c THEN d ELSE s[i]]

\* c in s
Contains(s, c) == \E i \in 1..Len(s) : s[i] = c

\* str.lower() on the letters float() looks at
Lower(c) ==
    CASE c = "I" -> "i" [] c = "N" -> "n" [] c = "F" -> "f" [] c = "T" -> "t"
      [] c = "Y" -> "y" [] c = "A" -> "a" [] c = "E" -> "e" [] OTHER -> c

LowerStr(s) == [i \in 1..Len(s) |-> Lower(s[i])]

\* str.split(): the maximal runs of non-whitespace characters, in order
RECURSIVE Split(_)
Split(s) ==
    LET t == LStrip(s)
        n == IF \E i \in 1..Len(t) : IsSpace(t[i])
             THEN (CHOOSE i \in 1..Len(t) :
                      IsSpace(t[i]) /\ \A j \in 1..(i - 1) : ~IsSpace(t[j])) - 1
             ELSE Len(t)
    IN  IF t = <<>> THEN <<>>
        ELSE <<SubSeq(t, 1, n)>> \o Split(SubSeq(t, n + 1, Len(t)))

\* ' '.join(words)
RECURSIVE Join(_)
Join(words) ==
    IF words = <<>> THEN <<>>
    ELSE IF Len(words) = 1 THEN words[1]
    ELSE words[1] \o <<" ">> \o Join(Tail(words))

-----------------------------------------------------------------------------
(* float(s): does the built-in accept the string?                          *)

\* digits with single underscores between them: the digitpart of float()
DigitPart(s) ==
    /\ s # <<>>
    /\ \A i \in 1..Len(s) : IsDigit(s[i]) \/ s[i] = "_"
    /\ IsDigit(s[1]) /\ IsDigit(s[Len(s)])
    /\ \A i \in 1..(Len(s) - 1) : ~(s[i] = "_" /\ s[i + 1] = "_")

DropSign(s) ==
    IF s # <<>> /\ s[1] \in {"+", "-"} THEN Tail(s) ELSE s

FirstIndex(s, cs) ==
    IF \E i \in 1..Len(s) : s[i] \in cs
    THEN CHOOSE i \in 1..Len(s) : s[i] \in cs /\ \A j \in 1..(i - 1) : s[j] \notin cs
    ELSE 0

\* [digitpart] "." [digitpart] | digitpart, with at least one digit
Mantissa(s) ==
    LET d == FirstIndex(s, {"."})
        ip == IF d = 0 THEN s ELSE SubSeq(s, 1, d - 1)
        fp == IF d = 0 THEN <<>> ELSE SubSeq(s, d + 1, Len(s))
    IN  /\ ip = <<>> \/ DigitPart(ip)
        /\ fp = <<>> \/ DigitPart(fp)
        /\ ip # <<>> \/ fp # <<>>

FloatNumber(s) ==
    LET e == FirstIndex(s, {"e", "E"})
    IN  IF e = 0 THEN Mantissa(s)
        ELSE /\ Mantissa(SubSeq(s, 1, e - 1))
             /\ DigitPart(DropSign(SubSeq(s, e + 1, Len(s))))

InfNan == {<<"i", "n", "f">>, <<"n", "a", "n">>,
           <<"i", "n", "f", "i", "n", "i", "t", "y">>}

\* float(s) returns (TRUE) or raises ValueError (FALSE)
IsFloat(s) ==
    LET body == DropSign(Strip(s))
    IN  LowerStr(body) \in InfNan \/ FloatNumber(body)

-----------------------------------------------------------------------------
(* TransformationRegistry: each transform returns a value or raises         *)
(* ValueError(msg + arg); arg is the text the message interpolates.         *)

Returned(v) == [tag |-> "ok", value |-> v, msg |-> "", arg |-> <<>>]

Raised(m, a) == [tag |-> "ValueError", value |-> <<>>, msg |-> m, arg |-> a]

\* the names under 'transforms' in transforms.yml
TransformsYml ==
    {"ixt:num-dot-decimal", "ixt:num-comma-decimal", "ixt:num-unit-decimal",
     "ixt:date-day-month-year", "ixt:date-day-month-year-slash",
     "ixt:date-month-day-year", "ixt:boolean-true", "ixt:boolean-false",
     "ixt:normalize-space", "ixt:zerodash"}

_num_dot_decimal(value) ==
    LET cleaned == Remove(Remove(Strip(value), " "), ",")
    IN  IF IsFloat(cleaned) THEN Returned(cleaned)
        ELSE Raised("Invalid number format: ", value)

\* faulty variant: the thousands dots are not removed
_num_comma_decimal_KeepsDots(value) ==
    LET cleaned == Replace(Remove(Strip(value), " "), ",", ".")
    IN  IF IsFloat(cleaned) THEN Returned(cleaned)
        ELSE Raised("Invalid number format: ", value)

_num_comma_decimal(value) ==
    LET cleaned == Replace(Remove(Remove(Strip(value), " "), "."), ",", ".")
    IN  IF IsFloat(cleaned) THEN Returned(cleaned)
        ELSE Raised("Invalid number format: ", value)

\* re.match(r'^([\d\s,\.]+)\s*[A-Z]{3}$', s): the greedy group 1 takes every
\* character before the three letters, trailing whitespace included
UnitMatch(s) ==
    /\ Len(s) >= 4
    /\ \A i \in (Len(s) - 2)..Len(s) : s[i] \in UpperAZ
    /\ \A i \in 1..(Len(s) - 3) : IsDigit(s[i]) \/ IsSpace(s[i]) \/ s[i] \in {",", "."}

_num_unit_decimal(value) ==
    LET s == Strip(value)
        number_part == SubSeq(s, 1, Len(s) - 3)
    IN  IF ~UnitMatch(s) THEN Raised("Invalid unit number format: ", value)
        ELSE IF Contains(number_part, ",") THEN _num_comma_decimal(number_part)
        ELSE _num_dot_decimal(number_part)

\* re.match(r'^(\d{2})SEP(\d{2})SEP(\d{4})$', s)
DateMatch(s, sep) ==
    /\ Len(s) = 10
    /\ s[3] = sep /\ s[6] = sep
    /\ \A i \in {1, 2, 4, 5, 7, 8, 9, 10} : IsDigit(s[i])

\* faulty variant: February is held to 29 days
_date_day_month_year_Calendar(value) ==
    LET s == Strip(value)
        day == SubSeq(s, 1, 2)
        month == SubSeq(s, 4, 5)
        year == SubSeq(s, 7, 10)
    IN  IF ~DateMatch(s, ".")
        THEN Raised("Invalid date format (expected DD.MM.YYYY): ", value)
        ELSE IF ~(1 <= IntOf(day) /\ IntOf(day) <= 31)
                  \/ (IntOf(month) = 2 /\ IntOf(day) > 29)
        THEN Raised("Invalid day: ", day)
        ELSE IF ~(1 <= IntOf(month) /\ IntOf(month) <= 12)
        THEN Raised("Invalid month: ", month)
        ELSE Returned(year \o <<"-">> \o month \o <<"-">> \o day)

_date_day_month_year(value) ==
    LET s == Strip(value)
        day == SubSeq(s, 1, 2)
        month == SubSeq(s, 4, 5)
        year == SubSeq(s, 7, 10)
    IN  IF ~DateMatch(s, ".")
        THEN Raised("Invalid date format (expected DD.MM.YYYY): ", value)
        ELSE IF ~(1 <= IntOf(day) /\ IntOf(day) <= 31)
        THEN Raised("Invalid day: ", day)
        ELSE IF ~(1 <= IntOf(month) /\ IntOf(month) <= 12)
        THEN Raised("Invalid month: ", month)
        ELSE Returned(year \o <<"-">> \o month \o <<"-">> \o day)

_date_day_month_year_slash(value) ==
    LET s == Strip(value)
        day == SubSeq(s, 1, 2)
        month == SubSeq(s, 4, 5)
        year == SubSeq(s, 7, 10)
    IN  IF ~DateMatch(s, "/")
        THEN Raised("Invalid date format (expected DD/MM/YYYY): ", value)
        ELSE Returned(year \o <<"-">> \o month \o <<"-">> \o day)

_date_month_day_year(value) ==
    LET s == Strip(value)
        month == SubSeq(s, 1, 2)
        day == SubSeq(s, 4, 5)
        year == SubSeq(s, 7, 10)
    IN  IF ~DateMatch(s, "/")
        THEN Raised("Invalid date format (expected MM/DD/YYYY): ", value)
        ELSE Returned(year \o <<"-">> \o month \o <<"-">> \o day)

_normalize_space(value) == Returned(Join(Split(value)))

\* TransformationRegistry.transform(raw_value, transform_name)
transform(value, name) ==
    IF name \notin TransformsYml THEN Raised("Unknown transformation: ", <<name>>)
    ELSE CASE name = "ixt:num-dot-decimal" -> _num_dot_decimal(value)
           [] name = "ixt:num-comma-decimal" -> _num_comma_decimal(value)
           [] name = "ixt:num-unit-decimal" -> _num_unit_decimal(value)
           [] name = "ixt:date-day-month-year" -> _date_day_month_year(value)
           [] name = "ixt:date-day-month-year-slash" -> _date_day_month_year_slash(value)
           [] name = "ixt:date-month-day-year" -> _date_month_day_year(value)
           [] name = "ixt:boolean-true" -> Returned(<<"t", "r", "u", "e">>)
           [] name = "ixt:boolean-false" -> Returned(<<"f", "a", "l", "s", "e">>)
           [] name = "ixt:normalize-space" -> _normalize_space(value)
           [] OTHER -> Raised("Transformation not implemented: ", <<name>>)

\* faulty variant: a fact without a declared transform keeps its raw text
canonical_value_Verbatim(raw_text, name) ==
    IF name # "None" THEN transform(raw_text, name)
    ELSE Returned(raw_text)

\* FactNormalizer.normalize, the value of one fact: the declared transform, or
\* normalize-space when the fact definition declares none (None is "None")
canonical_value(raw_text, name) ==
    IF name # "None" THEN transform(raw_text, name)
    ELSE _normalize_space(raw_text)

-----------------------------------------------------------------------------
(* The strings the transforms are applied to.                              *)

StringsUpTo(A, n) == UNION {[1..k -> A] : k \in 0..n}

Alphabet == {"1", " ", "\t", ",", ".", "-", "e", "n", "a", "_"}

NumAlphabet == {"1", "2", " ", ",", "."}

Examples ==
    {<<"1", " ", "2", "3", "4", ",", "5", "6">>,
     <<"1", ".", "2", "3", "4", ",", "5", "6">>,
     <<"1", ",", "2", "3", "4", ".", "5", "6">>,
     <<"1", ",", "2", ".", "3">>,
     <<"-", "1", "2", ",", "5">>,
     <<"i", "n", "f">>,
     <<"4", "5", ".", "1", "3", ".", "2", "0", "2", "5">>,
     <<"4", "5", "/", "1", "3", "/", "2", "0", "2", "5">>,
     <<"3", "1", ".", "1", "2", "/", "2", "0", "2", "5">>,
     <<"3", "1", "-", "1", "2", "-", "2", "0", "2", "5">>,
     <<"1", ".", "1", "2", ".", "2", "0", "2", "5">>,
     <<"3", "1", ".", "1", "2", ".", "2", "5">>,
     <<"3", "1", ".", "1", "2", ".", "2", "0", "2", "5", "x">>,
     <<"2", "0", "2", "5", "-", "1", "2", "-", "3", "1">>,
     <<"t", "r", "u", "e">>, <<"n", "o">>}

NumStrings == StringsUpTo(NumAlphabet, MaxNumLen)

Suffixes == {<<" ", "E", "U", "R">>, <<"E", "U", "R">>, <<" ", "e", "u", "r">>,
             <<" ", "E", "U">>}

TwoDigits(n) == <<Digits[(n \div 10) + 1], Digits[(n % 10) + 1]>>

Years == {<<"2", "0", "2", "5">>, <<"1", "9", "9", "0">>}

DateStrings ==
    {pad \o TwoDigits(a) \o <<sep>> \o TwoDigits(b) \o <<sep>> \o y \o pad :
        a \in 0..MaxDay, b \in 0..MaxMonth, sep \in {".", "/"}, y \in Years,
        pad \in {<<>>, <<" ">>}}

Inputs ==
    StringsUpTo(Alphabet, MaxLen) \cup NumStrings \cup Examples \cup DateStrings
    \cup {n \o u : n \in NumStrings \cup Examples, u \in Suffixes}

TransformNames == TransformsYml \cup {"ixt:unknown"}

-----------------------------------------------------------------------------
(* One call of the registry.                                               *)

\* a path that does not exist
NoFile == [exists |-> FALSE, content |-> <<>>]

\* no document at docx_path
NoDocx == [package |-> "missing", body |-> <<>>]

File(content) == [exists |-> TRUE, content |-> content]

NoResult == [tag |-> "none", value |-> <<>>, msg |-> "", arg |-> <<>>]

IdlePipeline ==
    /\ contexts = <<>> /\ units = <<>> /\ raw_facts = <<>> /\ idx = 0
    /\ canonical_facts = <<>> /\ errors = <<>> /\ exit_code = -1
    /\ canonical_file = NoFile /\ report_xbrl = NoFile
    /\ docx = NoDocx /\ extractor_facts = <<>> /\ raw_file = NoFile
    /\ calls = 0
    /\ validate = FALSE /\ basic = FALSE /\ engine = "unused"
    /\ validation_passed = "unset"

InitTransform ==
    /\ raw_value \in Inputs
    /\ transform_name \in TransformNames \cup {"None"}
    /\ result = NoResult
    /\ pc = "call"
    /\ IdlePipeline

pipeline_vars == <<contexts, units, raw_facts, idx, canonical_facts, errors,
                   exit_code, canonical_file, report_xbrl, extract_vars,
                   validate_vars>>

\* TransformationRegistry.transform(raw_value, transform_name)
Transform ==
    /\ pc = "call"
    /\ transform_name # "None"
    /\ result' = transform(raw_value, transform_name)
    /\ pc' = "transform_returned"
    /\ UNCHANGED <<raw_value, transform_name, pipeline_vars>>

\* the value FactNormalizer.normalize computes for one raw fact
CanonicalValue ==
    /\ pc = "call"
    /\ result' = canonical_value(raw_value, transform_name)
    /\ pc' = "value_returned"
    /\ UNCHANGED <<raw_value, transform_name, pipeline_vars>>

NextTransform == Transform \/ CanonicalValue

SpecTransform == InitTransform /\ [][NextTransform]_vars

-----------------------------------------------------------------------------
(* Configuration registries (facts.yml, contexts.yml, units.yml,           *)
(* entrypoints.yml) as the components receive them, already parsed.        *)
(* None is the string "None".                                              *)

\* facts_config['facts']: factId -> fact definition
facts_registry ==
    [fid \in {"revenue", "report_date", "company_name", "assured", "headcount"} |->
        CASE fid = "revenue" ->
               [concept |-> <<"g", "r", "i", ":", "R", "e", "v">>, type |-> "monetary",
                contextRef |-> "D_2025", unitRef |-> "EUR", decimals |-> "-2",
                transform |-> "ixt:num-comma-decimal"]
          [] fid = "report_date" ->
               [concept |-> <<"D", "a", "t", "e">>, type |-> "date",
                contextRef |-> "C_2025", unitRef |-> "None", decimals |-> "None",
                transform |-> "ixt:date-day-month-year"]
          [] fid = "company_name" ->
               [concept |-> <<"f", "o", "o", ":", "N", "a", "m", "e">>, type |-> "string",
                contextRef |-> "C_2025", unitRef |-> "", decimals |-> "None",
                transform |-> "None"]
          [] fid = "assured" ->
               [concept |-> <<"g", "r", "i", ":", "O", "k">>, type |-> "boolean",
                contextRef |-> "C_2025", unitRef |-> "None", decimals |-> "0",
                transform |-> "ixt:unknown"]
          [] fid = "headcount" ->
               [concept |-> <<"g", "r", "i", ":", "S", "t", "a", "f", "f">>,
                type |-> "integer",
                contextRef |-> "C_2025", unitRef |-> "None", decimals |-> "0",
                transform |-> "ixt:num-dot-decimal"]]

\* the order in which facts_config['facts'] is iterated: the order of facts.yml
facts_order == <<"revenue", "report_date", "company_name", "assured", "headcount">>

\* the contexts and units a contexts.yml / units.yml may define, in file order
AllContexts ==
    <<[id |-> "C_2025", scheme |-> "http://standards.iso.org/iso/17442",
       identifier |-> "LEI0001", period |-> "instant", instant |-> "2025-12-31",
       startDate |-> "None", endDate |-> "None"],
      [id |-> "D_2025", scheme |-> "http://standards.iso.org/iso/17442",
       identifier |-> "LEI0001", period |-> "duration", instant |-> "None",
       startDate |-> "2025-01-01", endDate |-> "2025-12-31"]>>

AllUnits == <<[id |-> "EUR", measure |-> "iso4217:EUR"]>>

\* taxonomy_config['namespaces'].get(prefix): the URI bound to a prefix, or None
namespaces(prefix) ==
    CASE prefix = <<"x", "b", "r", "l", "i">> -> "http://www.xbrl.org/2003/instance"
      [] prefix = <<"l", "i", "n", "k">> -> "http://www.xbrl.org/2003/linkbase"
      [] prefix = <<"x", "l", "i", "n", "k">> -> "http://www.w3.org/1999/xlink"
      [] prefix = <<"g", "r", "i">> -> "https://xbrl.globalreporting.org/gri"
      [] OTHER -> "None"

RawTexts ==
    {<<"1", " ", "2", ",", "5">>,
     <<"3", "1", ".", "1", "2", ".", "2", "0", "2", "5">>,
     <<" ", "a", "\t", " ", "b">>}

RawFactIds == DOMAIN facts_registry \cup {"ghost"}

\* the subsequences of a list: a registry file holding some of the entries
SubLists(q) ==
    {SelectSeq(q, LAMBDA e : e \in keep) : keep \in SUBSET {q[i] : i \in 1..Len(q)}}

\* the lists of at most n elements of S
SeqsUpTo(S, n) == UNION {[1..k -> S] : k \in 0..n}

-----------------------------------------------------------------------------
(* ContentControlExtractor (extract_docx.py).                             *)
(*                                                                         *)
(* A document is its package state and the body of word/document.xml: the  *)
(* top-level content controls (w:sdt) in document order.  A control has    *)
(* its own w:tag value ("None" without one) and the items of its           *)
(* w:sdtContent in document order: text runs (w:t) and nested controls,    *)
(* which hold text runs only.                                              *)

Sdt(tag, items) == [tag |-> tag, items |-> items]

\* a w:t holding text
T(text) == [kind |-> "t", tag |-> "None", runs |-> <<text>>]

\* a w:sdt within the w:sdtContent of another
NestedSdt(tag, runs) == [kind |-> "sdt", tag |-> tag, runs |-> runs]

Docx(body) == [package |-> "ok", body |-> body]

\* ''.join(parts)
RECURSIVE Concat(_)
Concat(parts) ==
    IF parts = <<>> THEN <<>> ELSE Head(parts) \o Concat(Tail(parts))

OwnTag(tag) == IF tag # "None" THEN <<tag>> ELSE <<>>

\* sdt.xpath('.//w:sdtPr/w:tag/@w:val') for the descendants of a control
RECURSIVE NestedTags(_)
NestedTags(items) ==
    IF items = <<>> THEN <<>>
    ELSE (IF Head(items).kind = "sdt" THEN OwnTag(Head(items).tag) ELSE <<>>)
         \o NestedTags(Tail(items))

\* the nodes '//w:sdt' selects below one top-level control
RECURSIVE NestedElements(_)
NestedElements(items) ==
    IF items = <<>> THEN <<>>
    ELSE (IF Head(items).kind = "sdt"
          THEN <<[tag |-> Head(items).tag, nested |-> TRUE,
                  tag_elements |-> OwnTag(Head(items).tag),
                  text_parts |-> Head(items).runs]>>
          ELSE <<>>)
         \o NestedElements(Tail(items))

\* root.xpath('//w:sdt'): every control, nested ones included, in document
\* order, each with what the two queries of _extract_content_control select
RECURSIVE sdt_elements(_)
sdt_elements(body) ==
    IF body = <<>> THEN <<>>
    ELSE LET sdt == Head(body)
         IN  <<[tag |-> sdt.tag, nested |-> FALSE,
                tag_elements |-> OwnTag(sdt.tag) \o NestedTags(sdt.items),
                text_parts |-> Concat([i \in 1..Len(sdt.items) |-> sdt.items[i].runs])]>>
             \o NestedElements(sdt.items) \o sdt_elements(Tail(body))

_extract_content_control_KeepsWhitespace(sdt, position) ==
    IF sdt.tag_elements = <<>> THEN <<>>
    ELSE <<[factId |-> sdt.tag_elements[1],
            rawText |-> Concat(sdt.text_parts),
            position |-> position]>>

\* ContentControlExtractor._extract_content_control: no fact or one
_extract_content_control(sdt, position) ==
    IF sdt.tag_elements = <<>> THEN <<>>
    ELSE <<[factId |-> sdt.tag_elements[1],
            rawText |-> Strip(Concat(sdt.text_parts)),
            position |-> position]>>

\* the loop of extract from the idx-th control on
RECURSIVE extract_from(_, _)
extract_from(sdts, position) ==
    IF position > Len(sdts) THEN <<>>
    ELSE _extract_content_control(sdts[position], position)
         \o extract_from(sdts, position + 1)

extract_IgnoresPackage(document) ==
    [status |-> "returned", facts |-> extract_from(sdt_elements(document.body), 1)]

\* ContentControlExtractor.extract on a new extractor: what it returns, or how
\* it ends otherwise
extract(document) ==
    CASE document.package \in {"missing", "not_zip", "no_document_xml"} ->
            [status |-> "sys.exit(1)", facts |-> <<>>]
      [] document.package = "bad_xml" ->
            [status |-> "XMLSyntaxError", facts |-> <<>>]
      [] OTHER ->
            [status |-> "returned",
             facts |-> extract_from(sdt_elements(document.body), 1)]

\* documents that cannot be read
BrokenDocs ==
    {[package |-> k, body |-> <<>>] :
        k \in {"missing", "not_zip", "no_document_xml", "bad_xml"}}

RunAlphabet == {"a", " "}

\* controls of text runs only
RunRegions ==
    {Sdt(tag, [i \in DOMAIN runs |-> T(runs[i])]) :
        tag \in {"None", "x"},
        runs \in SeqsUpTo(StringsUpTo(RunAlphabet, MaxRunLen), MaxRuns)}

\* controls with and without a tag, text and nested controls
BasicRegions ==
    {Sdt("x", <<T(<<"a">>)>>),
     Sdt("None", <<T(<<"a">>)>>),
     Sdt("y", <<T(<<" ", "a">>), T(<<"b", " ">>)>>),
     Sdt("x", <<>>),
     Sdt("None", <<NestedSdt("n", << <<"a">> >>)>>),
     Sdt("x", <<T(<<"a">>), NestedSdt("n", << <<"b">> >>), T(<<"c">>)>>),
     Sdt("x", <<NestedSdt("None", << <<"b">> >>)>>)}

ExtractDocs ==
    BrokenDocs
    \cup {Docx(<<sdt>>) : sdt \in RunRegions}
    \cup {Docx(body) : body \in SeqsUpTo(BasicRegions, MaxRegions)}

\* the documents of the orchestrated run: controls of one run each
PipelineDocs ==
    BrokenDocs
    \cup {Docx(body) :
            body \in SeqsUpTo({Sdt(tag, <<T(text)>>) :
                                  tag \in RawFactIds \cup {"None"},
                                  text \in RawTexts}, MaxFacts)}

\* extract_docx.py main
InitExtract ==
    /\ raw_value = <<>> /\ transform_name = "None" /\ result = NoResult
    /\ contexts = <<>> /\ units = <<>> /\ raw_facts = <<>> /\ idx = 0
    /\ canonical_facts = <<>> /\ errors = <<>> /\ exit_code = -1
    /\ canonical_file = NoFile /\ report_xbrl = NoFile
    /\ docx \in ExtractDocs
    /\ extractor_facts = <<>>
    /\ raw_file = NoFile
    /\ calls = 0
    /\ validate = FALSE /\ basic = FALSE /\ engine = "unused"
    /\ validation_passed = "unset"
    /\ pc = "extract_main"

\* main: extract, save_json, exit with 0 if there are facts and 1 if not
ExtractMain ==
    /\ pc = "extract_main"
    /\ calls' = calls + 1
    /\ LET out == extract(docx)
       IN  IF out.status = "returned"
           THEN /\ extractor_facts' = extractor_facts \o out.facts
                /\ raw_file' = File(extractor_facts')
                /\ exit_code' = IF extractor_facts' # <<>> THEN 0 ELSE 1
                /\ pc' = "extract_main_exit"
           ELSE /\ exit_code' = 1
                /\ pc' = out.status
                /\ UNCHANGED <<extractor_facts, raw_file>>
    /\ UNCHANGED <<raw_value, transform_name, result, contexts, units,
                   raw_facts, idx, canonical_facts, errors, canonical_file,
                   report_xbrl, docx, validate_vars>>

NextExtract == ExtractMain

SpecExtract == InitExtract /\ [][NextExtract]_vars

-----------------------------------------------------------------------------
(* One ContentControlExtractor used by a caller that calls extract and     *)
(* save_json as often as it likes.                                         *)

ExtractorDocs ==
    BrokenDocs \cup {Docx(body) : body \in SeqsUpTo(BasicRegions, MaxRegions)}

\* ContentControlExtractor.__init__
InitExtractor ==
    /\ raw_value = <<>> /\ transform_name = "None" /\ result = NoResult
    /\ contexts = <<>> /\ units = <<>> /\ raw_facts = <<>> /\ idx = 0
    /\ canonical_facts = <<>> /\ errors = <<>> /\ exit_code = -1
    /\ canonical_file = NoFile /\ report_xbrl = NoFile
    /\ docx \in ExtractorDocs
    /\ extractor_facts = <<>>
    /\ raw_file = NoFile
    /\ calls = 0
    /\ validate = FALSE /\ basic = FALSE /\ engine = "unused"
    /\ validation_passed = "unset"
    /\ pc = "extractor"

ExtractCall_Fresh ==
    /\ pc = "extractor"
    /\ calls < MaxCalls
    /\ calls' = calls + 1
    /\ LET out == extract(docx)
       IN  IF out.status = "returned"
           THEN /\ extractor_facts' = out.facts
                /\ UNCHANGED <<pc, exit_code>>
           ELSE /\ pc' = out.status
                /\ exit_code' = 1
                /\ UNCHANGED extractor_facts
    /\ UNCHANGED <<raw_value, transform_name, result, contexts, units,
                   raw_facts, idx, canonical_facts, errors, canonical_file,
                   report_xbrl, docx, raw_file, validate_vars>>

\* ContentControlExtractor.extract: appends to self.facts and returns it
ExtractCall ==
    /\ pc = "extractor"
    /\ calls < MaxCalls
    /\ calls' = calls + 1
    /\ LET out == extract(docx)
       IN  IF out.status = "returned"
           THEN /\ extractor_facts' = extractor_facts \o out.facts
                /\ UNCHANGED <<pc, exit_code>>
           ELSE /\ pc' = out.status
                /\ exit_code' = 1
                /\ UNCHANGED extractor_facts
    /\ UNCHANGED <<raw_value, transform_name, result, contexts, units,
                   raw_facts, idx, canonical_facts, errors, canonical_file,
                   report_xbrl, docx, raw_file, validate_vars>>

\* ContentControlExtractor.save_json: writes self.facts
SaveJson ==
    /\ pc = "extractor"
    /\ raw_file' = File(extractor_facts)
    /\ UNCHANGED <<raw_value, transform_name, result, contexts, units,
                   raw_facts, idx, canonical_facts, errors, canonical_file,
                   report_xbrl, docx, extractor_facts, calls, validate_vars, pc,
                   exit_code>>

NextExtractor == ExtractCall \/ SaveJson

SpecExtractor == InitExtractor /\ [][NextExtractor]_vars

-----------------------------------------------------------------------------
(* FactNormalizer.normalize                                                *)

CanonicalFact(fact_id, raw_text, value, fact_def) ==
    [factId |-> fact_id, rawValue |-> raw_text, canonicalValue |-> value,
     concept |-> fact_def.concept, type |-> fact_def.type,
     contextRef |-> fact_def.contextRef, decimals |-> fact_def.decimals,
     unitRef |-> fact_def.unitRef]

\* faulty variant: a failed transform is dropped without an error
normalize_fact_DropsFailure(raw_fact) ==
    LET fact_id == raw_fact.factId
        raw_text == raw_fact.rawText
        fact_def == facts_registry[fact_id]
        r == canonical_value(raw_text, fact_def.transform)
    IN  IF fact_id \notin DOMAIN facts_registry
        THEN [canonical |-> <<>>,
              errors |-> <<[factId |-> fact_id, msg |-> "Unknown factId: ", arg |-> <<>>]>>]
        ELSE IF r.tag = "ok"
        THEN [canonical |-> <<CanonicalFact(fact_id, raw_text, r.value, fact_def)>>,
              errors |-> <<>>]
        ELSE [canonical |-> <<>>, errors |-> <<>>]

\* faulty variant: an unknown factId is skipped without an error
normalize_fact_SkipsUnknown(raw_fact) ==
    LET fact_id == raw_fact.factId
        raw_text == raw_fact.rawText
        fact_def == facts_registry[fact_id]
        r == canonical_value(raw_text, fact_def.transform)
    IN  IF fact_id \notin DOMAIN facts_registry
        THEN [canonical |-> <<>>, errors |-> <<>>]
        ELSE IF r.tag = "ok"
        THEN [canonical |-> <<CanonicalFact(fact_id, raw_text, r.value, fact_def)>>,
              errors |-> <<>>]
        ELSE [canonical |-> <<>>,
              errors |-> <<[factId |-> fact_id, msg |-> r.msg, arg |-> r.arg]>>]

\* one iteration of the loop: the canonical facts and the errors it appends
normalize_fact(raw_fact) ==
    LET fact_id == raw_fact.factId
        raw_text == raw_fact.rawText
        fact_def == facts_registry[fact_id]
        r == canonical_value(raw_text, fact_def.transform)
    IN  IF fact_id \notin DOMAIN facts_registry
        THEN [canonical |-> <<>>,
              errors |-> <<[factId |-> fact_id, msg |-> "Unknown factId: ", arg |-> <<>>]>>]
        ELSE IF r.tag = "ok"
        THEN [canonical |-> <<CanonicalFact(fact_id, raw_text, r.value, fact_def)>>,
              errors |-> <<>>]
        ELSE [canonical |-> <<>>,
              errors |-> <<[factId |-> fact_id, msg |-> r.msg, arg |-> r.arg]>>]

normalize_exits_Never(errs) == FALSE

\* the test of 'if errors:' that ends normalize with sys.exit(1)
normalize_exits(errs) == errs # <<>>

-----------------------------------------------------------------------------
(* XBRLEmitter                                                             *)

NoAttr == "#absent"

Element(kind, ns, name, id, contextRef, unitRef, decimals, text) ==
    [kind |-> kind, ns |-> ns, name |-> name, id |-> id, contextRef |-> contextRef,
     unitRef |-> unitRef, decimals |-> decimals, text |-> text]

_add_schema_ref ==
    <<Element("schemaRef", namespaces(<<"l", "i", "n", "k">>), <<>>, NoAttr, NoAttr,
              NoAttr, NoAttr, <<>>)>>

\* the text of the children of a context: identifier scheme and value, then
\* the instant or the start and end date
_add_contexts(ctxs) ==
    [i \in 1..Len(ctxs) |->
        Element("context", namespaces(<<"x", "b", "r", "l", "i">>), <<>>, ctxs[i].id,
                NoAttr, NoAttr, NoAttr,
                <<ctxs[i].scheme, ctxs[i].identifier>>
                \o (CASE ctxs[i].period = "instant" -> <<"instant", ctxs[i].instant>>
                      [] ctxs[i].period = "duration" ->
                           <<"startDate", ctxs[i].startDate,
                             "endDate", ctxs[i].endDate>>
                      [] OTHER -> <<>>))]

\* the text of the child of a unit: its measure
_add_units(us) ==
    [i \in 1..Len(us) |->
        Element("unit", namespaces(<<"x", "b", "r", "l", "i">>), <<>>, us[i].id,
                NoAttr, NoAttr, NoAttr, <<us[i].measure>>)]

fact_element_TruthyDecimals(fact) ==
    LET concept_qname == fact.concept
        colon == FirstIndex(concept_qname, {":"})
        prefix == SubSeq(concept_qname, 1, colon - 1)
        namespace == IF colon # 0 THEN namespaces(prefix)
                     ELSE namespaces(<<"g", "r", "i">>)
        local_name == SubSeq(concept_qname, colon + 1, Len(concept_qname))
    IN  IF colon # 0 /\ namespace = "None" THEN <<>>
        ELSE <<Element("fact", namespace, local_name, NoAttr, fact.contextRef,
                       IF fact.unitRef \notin {"None", ""} THEN fact.unitRef ELSE NoAttr,
                       IF fact.decimals \notin {"None", "0"} THEN fact.decimals
                       ELSE NoAttr,
                       fact.canonicalValue)>>

fact_element_DefaultsUnbound(fact) ==
    LET concept_qname == fact.concept
        colon == FirstIndex(concept_qname, {":"})
        prefix == SubSeq(concept_qname, 1, colon - 1)
        namespace == IF colon # 0 /\ namespaces(prefix) # "None" THEN namespaces(prefix)
                     ELSE namespaces(<<"g", "r", "i">>)
        local_name == SubSeq(concept_qname, colon + 1, Len(concept_qname))
    IN  <<Element("fact", namespace, local_name, NoAttr, fact.contextRef,
                  IF fact.unitRef \notin {"None", ""} THEN fact.unitRef ELSE NoAttr,
                  IF fact.decimals # "None" THEN fact.decimals ELSE NoAttr,
                  fact.canonicalValue)>>

\* the elements _add_facts appends for one canonical fact: none or one
fact_element(fact) ==
    LET concept_qname == fact.concept
        colon == FirstIndex(concept_qname, {":"})
        prefix == SubSeq(concept_qname, 1, colon - 1)
        namespace == IF colon # 0 THEN namespaces(prefix)
                     ELSE namespaces(<<"g", "r", "i">>)
        local_name == SubSeq(concept_qname, colon + 1, Len(concept_qname))
    IN  IF colon # 0 /\ namespace = "None" THEN <<>>
        ELSE <<Element("fact", namespace, local_name, NoAttr, fact.contextRef,
                       IF fact.unitRef \notin {"None", ""} THEN fact.unitRef ELSE NoAttr,
                       IF fact.decimals # "None" THEN fact.decimals ELSE NoAttr,
                       fact.canonicalValue)>>

RECURSIVE _add_facts(_)
_add_facts(facts) ==
    IF facts = <<>> THEN <<>>
    ELSE fact_element(Head(facts)) \o _add_facts(Tail(facts))

emit_FactsFirst(ctxs, us, facts) ==
    _add_schema_ref \o _add_facts(facts) \o _add_contexts(ctxs) \o _add_units(us)

\* XBRLEmitter.emit: the children of the root, in document order
emit(ctxs, us, facts) ==
    _add_schema_ref \o _add_contexts(ctxs) \o _add_units(us) \o _add_facts(facts)

-----------------------------------------------------------------------------
(* XBRLEmitter.save and the validators (validate_arelle.py).  A file on    *)
(* disk is the sequence of what has been written to it: the XML            *)
(* declaration, the start tag of the root, its children, its end tag.      *)

XmlDeclaration ==
    Element("declaration", "", <<>>, NoAttr, NoAttr, NoAttr, NoAttr, <<>>)

RootStart ==
    Element("start", namespaces(<<"x", "b", "r", "l", "i">>), <<>>, NoAttr, NoAttr,
            NoAttr, NoAttr, <<>>)

RootEnd ==
    Element("end", namespaces(<<"x", "b", "r", "l", "i">>), <<>>, NoAttr, NoAttr,
            NoAttr, NoAttr, <<>>)

\* etree.tostring(root, encoding='utf-8', xml_declaration=True, ...)
tostring(children) == <<XmlDeclaration, RootStart>> \o children \o <<RootEnd>>

\* the prefixes of what a write was given that are less than all of it
PartialWrites(xml_str) == {SubSeq(xml_str, 1, n) : n \in 0..(Len(xml_str) - 1)}

\* etree.parse accepts the content
WellFormed(content) ==
    /\ Len(content) >= 3
    /\ content[1] = XmlDeclaration
    /\ content[2] = RootStart
    /\ content[Len(content)] = RootEnd
    /\ \A i \in 3..(Len(content) - 1) :
          content[i].kind \notin {"declaration", "start", "end"}

\* what the import of the engine and the engine itself can do
EngineBehaviours == {"not_installed", "load_failed", "raised", "errors", "clean"}

\* the engine reports no error only for an instance it could parse
EngineCan(behaviour, instance) ==
    behaviour = "clean" => (instance.exists /\ WellFormed(instance.content))

\* validate_with_arelle(instance_path, output_path)
validate_with_arelle(behaviour, instance) ==
    CASE behaviour = "not_installed" -> FALSE
      [] ~instance.exists -> FALSE
      [] behaviour \in {"load_failed", "raised", "errors"} -> FALSE
      [] OTHER -> TRUE

validate_basic_xml_ChecksCounts(instance) ==
    /\ instance.exists /\ WellFormed(instance.content)
    /\ Len(SelectSeq(instance.content, LAMBDA e : e.kind = "context"))
         = Len(AllContexts)
    /\ Len(SelectSeq(instance.content, LAMBDA e : e.kind = "unit")) = Len(AllUnits)

\* validate_basic_xml(instance_path)
validate_basic_xml(instance) == instance.exists /\ WellFormed(instance.content)

\* str(success)
str_bool(b) == IF b THEN <<"T", "r", "u", "e">> ELSE <<"F", "a", "l", "s", "e">>

\* sub in s
HasSubstring(s, sub) ==
    \E i \in 1..(Len(s) - Len(sub) + 1) : SubSeq(s, i, i + Len(sub) - 1) = sub

ArelleNotInstalled ==
    <<"A", "r", "e", "l", "l", "e", " ", "n", "o", "t", " ",
      "i", "n", "s", "t", "a", "l", "l", "e", "d">>

\* validate_arelle.py main: the value of success at its sys.exit
validate_main(is_basic, behaviour, instance) ==
    IF is_basic THEN validate_basic_xml(instance)
    ELSE LET success == validate_with_arelle(behaviour, instance)
         IN  IF ~success /\ HasSubstring(str_bool(success), ArelleNotInstalled)
             THEN validate_basic_xml(instance)
             ELSE success

_step_validate_NoFallback(behaviour, instance) ==
    validate_with_arelle(behaviour, instance)

\* Pipeline._step_validate: the value it stores in stats['validation_passed']
_step_validate(behaviour, instance) ==
    LET success == validate_with_arelle(behaviour, instance)
    IN  IF ~success THEN validate_basic_xml(instance) ELSE success

-----------------------------------------------------------------------------
(* One orchestrated run (run_pipeline.py main and Pipeline.run).           *)

\* a report.xbrl an earlier run left in the output directory
PreviousReport == File(tostring(_add_schema_ref))

Init ==
    /\ raw_value = <<>> /\ transform_name = "None" /\ result = NoResult
    /\ contexts = <<>>
    /\ units = <<>>
    /\ raw_facts = <<>>
    /\ idx = 0
    /\ canonical_facts = <<>>
    /\ errors = <<>>
    /\ pc = "extract"
    /\ exit_code = -1
    /\ canonical_file = NoFile
    /\ report_xbrl \in {NoFile, PreviousReport}
    /\ docx \in PipelineDocs
    /\ extractor_facts = <<>>
    /\ raw_file = NoFile
    /\ calls = 0
    /\ validate \in BOOLEAN
    /\ basic = FALSE
    /\ engine = "unused"
    /\ validation_passed = "unset"

call_vars == <<raw_value, transform_name, result>>

StepExtract_AcceptsEmpty ==
    /\ pc = "extract"
    /\ calls' = calls + 1
    /\ LET out == extract(docx)
       IN  CASE out.status = "sys.exit(1)" ->
                  /\ pc' = "extract_exit" /\ exit_code' = 1
                  /\ UNCHANGED <<extractor_facts, raw_file>>
             [] out.status = "XMLSyntaxError" ->
                  /\ pc' = "run_failed" /\ exit_code' = 1
                  /\ UNCHANGED <<extractor_facts, raw_file>>
             [] OTHER ->
                  /\ extractor_facts' = extractor_facts \o out.facts
                  /\ pc' = "normalize_load" /\ raw_file' = File(extractor_facts')
                  /\ UNCHANGED exit_code
    /\ UNCHANGED <<call_vars, contexts, units, raw_facts, idx, canonical_facts,
                   errors, canonical_file, report_xbrl, docx, validate_vars>>

\* main's check that the document exists and Pipeline._step_extract:
\* extract, refuse an empty list, else write raw_facts.json
StepExtract ==
    /\ pc = "extract"
    /\ calls' = calls + 1
    /\ LET out == extract(docx)
       IN  CASE out.status = "sys.exit(1)" ->
                  /\ pc' = "extract_exit" /\ exit_code' = 1
                  /\ UNCHANGED <<extractor_facts, raw_file>>
             [] out.status = "XMLSyntaxError" ->
                  /\ pc' = "run_failed" /\ exit_code' = 1
                  /\ UNCHANGED <<extractor_facts, raw_file>>
             [] OTHER ->
                  /\ extractor_facts' = extractor_facts \o out.facts
                  /\ IF extractor_facts' = <<>>
                     THEN pc' = "run_failed" /\ exit_code' = 1
                          /\ UNCHANGED raw_file
                     ELSE pc' = "normalize_load" /\ raw_file' = File(extractor_facts')
                          /\ UNCHANGED exit_code
    /\ UNCHANGED <<call_vars, contexts, units, raw_facts, idx, canonical_facts,
                   errors, canonical_file, report_xbrl, docx, validate_vars>>

\* Pipeline._step_normalize: load raw_facts.json
StepNormalizeLoad ==
    /\ pc = "normalize_load"
    /\ raw_facts' = raw_file.content
    /\ pc' = "normalize"
    /\ UNCHANGED <<call_vars, contexts, units, idx, canonical_facts, errors,
                   exit_code, canonical_file, report_xbrl, extract_vars,
                   validate_vars>>

\* Pipeline._step_normalize: facts.yml or transforms.yml cannot be opened;
\* Pipeline.run catches the exception and returns False
StepNormalizeConfigFails ==
    /\ pc = "normalize_load"
    /\ pc' = "config_error"
    /\ exit_code' = 1
    /\ UNCHANGED <<call_vars, contexts, units, raw_facts, idx, canonical_facts,
                   errors, canonical_file, report_xbrl, extract_vars,
                   validate_vars>>

\* FactNormalizer.normalize: one iteration of 'for raw_fact in raw_facts'
NormalizeFact ==
    /\ pc = "normalize"
    /\ idx < Len(raw_facts)
    /\ LET out == normalize_fact(raw_facts[idx + 1])
       IN  /\ canonical_facts' = canonical_facts \o out.canonical
           /\ errors' = errors \o out.errors
    /\ idx' = idx + 1
    /\ UNCHANGED <<call_vars, contexts, units, raw_facts, pc, exit_code,
                   canonical_file, report_xbrl, extract_vars, validate_vars>>

\* FactNormalizer.normalize after the loop: sys.exit(1) on errors, else return
NormalizeFinish ==
    /\ pc = "normalize"
    /\ idx = Len(raw_facts)
    /\ IF normalize_exits(errors)
       THEN pc' = "normalize_exit" /\ exit_code' = 1
       ELSE pc' = "normalize_returned" /\ UNCHANGED exit_code
    /\ UNCHANGED <<call_vars, contexts, units, raw_facts, idx, canonical_facts,
                   errors, canonical_file, report_xbrl, extract_vars,
                   validate_vars>>

\* Pipeline._step_normalize after normalize returned: refuse an empty list,
\* else write canonical_facts.json
StepNormalizeSave ==
    /\ pc = "normalize_returned"
    /\ IF canonical_facts = <<>>
       THEN pc' = "run_failed" /\ exit_code' = 1 /\ UNCHANGED canonical_file
       ELSE pc' = "emit" /\ canonical_file' = File(canonical_facts)
            /\ UNCHANGED exit_code
    /\ UNCHANGED <<call_vars, contexts, units, raw_facts, idx, canonical_facts,
                   errors, report_xbrl, extract_vars, validate_vars>>

\* Pipeline._step_emit: load contexts.yml and units.yml into a new emitter,
\* load canonical_facts.json, emit
StepEmit ==
    /\ pc = "emit"
    /\ contexts' \in SubLists(AllContexts)
    /\ units' \in SubLists(AllUnits)
    /\ pc' = "save"
    /\ UNCHANGED <<call_vars, raw_facts, idx, canonical_facts, errors, exit_code,
                   canonical_file, report_xbrl, extract_vars, validate_vars>>

\* Pipeline._step_emit: contexts.yml, units.yml or entrypoints.yml cannot be
\* opened; Pipeline.run catches the exception and returns False
StepEmitConfigFails ==
    /\ pc = "emit"
    /\ pc' = "config_error"
    /\ exit_code' = 1
    /\ UNCHANGED <<call_vars, contexts, units, raw_facts, idx, canonical_facts,
                   errors, canonical_file, report_xbrl, extract_vars,
                   validate_vars>>

\* XBRLEmitter.save: open(output_path, 'wb') creates or truncates the file
SaveOpen ==
    /\ pc = "save"
    /\ report_xbrl' = File(<<>>)
    /\ pc' = "save_write"
    /\ UNCHANGED <<call_vars, contexts, units, raw_facts, idx, canonical_facts,
                   errors, exit_code, canonical_file, extract_vars, validate_vars>>

\* XBRLEmitter.save: f.write(xml_str) and the close
SaveWrite ==
    /\ pc = "save_write"
    /\ report_xbrl' = File(tostring(emit(contexts, units, canonical_file.content)))
    /\ pc' = "emitted"
    /\ UNCHANGED <<call_vars, contexts, units, raw_facts, idx, canonical_facts,
                   errors, exit_code, canonical_file, extract_vars, validate_vars>>

\* XBRLEmitter.save: f.write(xml_str) raises OSError after part of the
\* bytes; Pipeline.run catches it and returns False
SaveFails ==
    /\ pc = "save_write"
    /\ \E written \in PartialWrites(tostring(emit(contexts, units,
                                                  canonical_file.content))) :
          report_xbrl' = File(written)
    /\ pc' = "run_failed"
    /\ exit_code' = 1
    /\ UNCHANGED <<call_vars, contexts, units, raw_facts, idx, canonical_facts,
                   errors, canonical_file, extract_vars, validate_vars>>

StepValidate_BeforeClose ==
    /\ pc = "save_write"
    /\ validate
    /\ \E behaviour \in EngineBehaviours :
          /\ EngineCan(behaviour, report_xbrl)
          /\ engine' = behaviour
          /\ validation_passed' = _step_validate(behaviour, report_xbrl)
    /\ pc' = "validated"
    /\ UNCHANGED <<call_vars, contexts, units, raw_facts, idx, canonical_facts,
                   errors, exit_code, canonical_file, report_xbrl, extract_vars,
                   validate, basic>>

\* Pipeline._step_validate, run when validate is set
StepValidate ==
    /\ pc = "emitted"
    /\ validate
    /\ \E behaviour \in EngineBehaviours :
          /\ EngineCan(behaviour, report_xbrl)
          /\ engine' = behaviour
          /\ validation_passed' = _step_validate(behaviour, report_xbrl)
    /\ pc' = "validated"
    /\ UNCHANGED <<call_vars, contexts, units, raw_facts, idx, canonical_facts,
                   errors, exit_code, canonical_file, report_xbrl, extract_vars,
                   validate, basic>>

RunSucceeds_NeedsEngine ==
    /\ \/ pc = "emitted" /\ ~validate
       \/ pc = "validated"
    /\ pc' = (IF validate /\ engine # "clean" THEN "run_failed" ELSE "run_ok")
    /\ exit_code' = (IF validate /\ engine # "clean" THEN 1 ELSE 0)
    /\ UNCHANGED <<call_vars, contexts, units, raw_facts, idx, canonical_facts,
                   errors, canonical_file, report_xbrl, extract_vars,
                   validate_vars>>

\* Pipeline.run returns True and main exits with 0
RunSucceeds ==
    /\ \/ pc = "emitted" /\ ~validate
       \/ pc = "validated"
    /\ pc' = "run_ok"
    /\ exit_code' = 0
    /\ UNCHANGED <<call_vars, contexts, units, raw_facts, idx, canonical_facts,
                   errors, canonical_file, report_xbrl, extract_vars,
                   validate_vars>>

Next ==
    \/ StepExtract \/ StepNormalizeLoad \/ StepNormalizeConfigFails
    \/ NormalizeFact \/ NormalizeFinish \/ StepNormalizeSave
    \/ StepEmit \/ StepEmitConfigFails \/ SaveOpen \/ SaveWrite \/ SaveFails
    \/ StepValidate \/ RunSucceeds

Spec == Init /\ [][Next]_vars

-----------------------------------------------------------------------------
(* validate_arelle.py run on its own.                                      *)

\* the canonical facts normalize produces for one raw fact
OkFacts ==
    {normalize_fact([factId |-> fid, rawText |-> Strip(text), position |-> 1]).canonical :
        fid \in RawFactIds, text \in RawTexts}

\* the files at instance_path: none, an emitted instance, or part of one
Instances ==
    {NoFile}
    \cup UNION {{File(tostring(emit(ctxs, us, fs)))}
                \cup {File(w) : w \in PartialWrites(tostring(emit(ctxs, us, fs)))} :
                    ctxs \in SubLists(AllContexts), us \in SubLists(AllUnits),
                    fs \in OkFacts}

InitValidate ==
    /\ raw_value = <<>> /\ transform_name = "None" /\ result = NoResult
    /\ contexts = <<>> /\ units = <<>> /\ raw_facts = <<>> /\ idx = 0
    /\ canonical_facts = <<>> /\ errors = <<>> /\ exit_code = -1
    /\ canonical_file = NoFile
    /\ report_xbrl \in Instances
    /\ docx = NoDocx /\ extractor_facts = <<>> /\ raw_file = NoFile
    /\ calls = 0
    /\ validate = TRUE
    /\ basic \in BOOLEAN
    /\ engine = "unused"
    /\ validation_passed = "unset"
    /\ pc = "validate_main"

\* main: validate, exit with 0 if success and 1 if not
ValidateMain ==
    /\ pc = "validate_main"
    /\ \E behaviour \in EngineBehaviours :
          /\ EngineCan(behaviour, report_xbrl)
          /\ engine' = (IF basic THEN "unused" ELSE behaviour)
          /\ validation_passed' = validate_main(basic, behaviour, report_xbrl)
    /\ exit_code' = (IF validation_passed' THEN 0 ELSE 1)
    /\ pc' = "validate_main_exit"
    /\ UNCHANGED <<call_vars, contexts, units, raw_facts, idx, canonical_facts,
                   errors, canonical_file, report_xbrl, extract_vars, validate,
                   basic>>

\* Pipeline._step_validate on whatever file is at xbrl_path
StepValidateCall ==
    /\ pc = "validate_main"
    /\ ~basic
    /\ \E behaviour \in EngineBehaviours :
          /\ EngineCan(behaviour, report_xbrl)
          /\ engine' = behaviour
          /\ validation_passed' = _step_validate(behaviour, report_xbrl)
    /\ pc' = "step_validated"
    /\ UNCHANGED <<call_vars, contexts, units, raw_facts, idx, canonical_facts,
                   errors, exit_code, canonical_file, report_xbrl, extract_vars,
                   validate, basic>>

NextValidate == ValidateMain \/ StepValidateCall

SpecValidate == InitValidate /\ [][NextValidate]_vars

-----------------------------------------------------------------------------
(* Properties of the emission and normalization steps.                     *)

ContextIds == {contexts[i].id : i \in 1..Len(contexts)}

UnitIds == {units[i].id : i \in 1..Len(units)}

Dangling(fact) ==
    \/ fact.contextRef \notin ContextIds
    \/ fact.unitRef \notin {"None", ""} /\ fact.unitRef \notin UnitIds

Count(q, P(_)) == Cardinality({i \in 1..Len(q) : P(q[i])})

\* C1: whenever a canonical fact handed to the emitter has a contextRef that
\* is no loaded context's id, or a non-empty unitRef that is no loaded unit's
\* id, emission fails and report.xbrl is neither created nor modified.
C1_DanglingReferenceIsFatal ==
    (canonical_file.exists /\ \E i \in 1..Len(canonical_file.content) :
                                  Dangling(canonical_file.content[i]))
        => (report_xbrl = NoFile /\ pc \notin {"emitted", "run_ok"})

C2_Counts ==
    /\ Len(canonical_facts) + Len(errors) = idx
    /\ \A f \in RawFactIds :
          Count(SubSeq(raw_facts, 1, idx), LAMBDA r : r.factId = f)
            = Count(canonical_facts, LAMBDA c : c.factId = f)
              + Count(errors, LAMBDA e : e.factId = f)
    /\ pc # "normalize" => idx = Len(raw_facts)
    /\ pc = "normalize_exit" => (errors # <<>> /\ exit_code = 1)
    /\ pc \notin {"normalize", "normalize_exit"} => errors = <<>>

C2_NoEarlyAbort ==
    (pc = "normalize" /\ idx < Len(raw_facts))
        => (pc' = "normalize" /\ idx' = idx + 1 /\ exit_code' = exit_code)

\* C2: normalize attempts every raw fact, also after failures (while raw facts
\* remain, the only step is the next raw fact); every raw fact processed so far
\* has become exactly one canonical fact or exactly one error; normalize ends
\* only after the last raw fact, and it ends with exit code 1 exactly when the
\* error list is non-empty.
C2_NormalizeIsExhaustive == []C2_Counts /\ [][C2_NoEarlyAbort]_vars

\* C2 witness: a batch whose first fact failed and whose second fact was still
\* normalized, ended with exit code 1 after both.
C2_Witness ==
    /\ pc = "normalize_exit" /\ exit_code = 1
    /\ Len(raw_facts) = 2 /\ idx = 2
    /\ Len(errors) = 1 /\ errors[1].factId = raw_facts[1].factId
    /\ Len(canonical_facts) = 1 /\ canonical_facts[1].factId = raw_facts[2].factId
    /\ raw_facts[1].factId # raw_facts[2].factId

UnknownIds == RawFactIds \ DOMAIN facts_registry

\* C3: a raw fact whose factId is not in the fact-definition registry yields
\* exactly one error and no canonical fact, and makes normalize end in failure
\* whatever the other raw facts are.
C3_UnknownFactIdFails ==
    /\ \A f \in UnknownIds :
          /\ Count(errors, LAMBDA e : e.factId = f)
               = Count(SubSeq(raw_facts, 1, idx), LAMBDA r : r.factId = f)
          /\ Count(canonical_facts, LAMBDA c : c.factId = f) = 0
          /\ \A i \in 1..Len(errors) :
                errors[i].factId = f => errors[i].msg = "Unknown factId: "
    /\ (pc # "normalize" /\ \E i \in 1..Len(raw_facts) : raw_facts[i].factId \in UnknownIds)
          => (pc = "normalize_exit" /\ exit_code = 1)

\* C3 witness: an unknown factId next to a fact that normalized.
C3_Witness ==
    /\ pc = "normalize_exit"
    /\ Len(raw_facts) = 2
    /\ raw_facts[2].factId \in UnknownIds
    /\ Len(canonical_facts) = 1 /\ Len(errors) = 1
    /\ errors[1].factId = raw_facts[2].factId

-----------------------------------------------------------------------------
(* Properties of the transforms.                                           *)

Called == pc \in {"transform_returned", "value_returned"}

DateTransforms ==
    {"ixt:date-day-month-year", "ixt:date-day-month-year-slash",
     "ixt:date-month-day-year"}

AllDigits(s) == \A i \in 1..Len(s) : IsDigit(s[i])

\* YYYY-MM-DD with month 01..12 and day 01..31
IsoDateInRange(s) ==
    /\ Len(s) = 10 /\ s[5] = "-" /\ s[8] = "-"
    /\ AllDigits(SubSeq(s, 1, 4)) /\ AllDigits(SubSeq(s, 6, 7)) /\ AllDigits(SubSeq(s, 9, 10))
    /\ IntOf(SubSeq(s, 6, 7)) \in 1..12
    /\ IntOf(SubSeq(s, 9, 10)) \in 1..31

\* C4: each of the three date transforms validates its fields, so none of them
\* returns a YYYY-MM-DD string whose month is outside 01..12 or whose day is
\* outside 01..31.
C4_DateFieldsValidated ==
    (Called /\ transform_name \in DateTransforms /\ result.tag = "ok")
        => IsoDateInRange(result.value)

\* s is DD.MM.YYYY, optionally surrounded by whitespace, at offset k
DottedDateAt(s, k) ==
    /\ Len(s) >= k + 10
    /\ \A i \in 1..Len(s) : (i <= k \/ i > k + 10) => IsSpace(s[i])
    /\ s[k + 3] = "." /\ s[k + 6] = "."
    /\ \A i \in {1, 2, 4, 5, 7, 8, 9, 10} : IsDigit(s[k + i])
    /\ IntOf(<<s[k + 1], s[k + 2]>>) \in 1..31
    /\ IntOf(<<s[k + 4], s[k + 5]>>) \in 1..12

\* C5: for DD.MM.YYYY (optionally surrounded by whitespace) with 1<=DD<=31 and
\* 1<=MM<=12, date-day-month-year returns the same digit groups as YYYY-MM-DD;
\* the two ranges are the only conditions, and any other input is refused.
C5_DayMonthYear ==
    (Called /\ transform_name = "ixt:date-day-month-year")
        => /\ \A k \in 0..Len(raw_value) :
                DottedDateAt(raw_value, k)
                  => result = Returned(<<raw_value[k + 7], raw_value[k + 8],
                                         raw_value[k + 9], raw_value[k + 10], "-",
                                         raw_value[k + 4], raw_value[k + 5], "-",
                                         raw_value[k + 1], raw_value[k + 2]>>)
           /\ result.tag = "ok" => \E k \in 0..Len(raw_value) : DottedDateAt(raw_value, k)

\* C5 witness: the calendar-impossible 31.02.2025 is returned as 2025-02-31.
C5_Witness ==
    /\ pc = "transform_returned" /\ transform_name = "ixt:date-day-month-year"
    /\ raw_value = <<" ", "3", "1", ".", "0", "2", ".", "2", "0", "2", "5", " ">>
    /\ result = Returned(<<"2", "0", "2", "5", "-", "0", "2", "-", "3", "1">>)

Body(s) == Strip(s)

\* digit groups separated by single spaces or dots, one comma, then digits;
\* an optional sign in front
CommaDecimalShape(s) ==
    LET b == DropSign(Body(s))
        c == FirstIndex(b, {","})
    IN  /\ c > 1 /\ c < Len(b)
        /\ \A i \in 1..Len(b) : i # c => IsDigit(b[i]) \/ (i < c /\ b[i] \in {" ", "."})
        /\ IsDigit(b[1])
        /\ \A i \in 2..c : ~IsDigit(b[i]) => IsDigit(b[i - 1])

SignOf(s) == IF s # <<>> /\ s[1] \in {"+", "-"} THEN <<s[1]>> ELSE <<>>

OnlyDigits(s) == SelectSeq(s, IsDigit)

\* C6: on a number written with space or dot thousands separators and one
\* decimal comma, numeric-comma-decimal returns the digits of the integer part,
\* a dot, and the digits of the fraction: the same integer and fraction as the
\* input; an input with two commas is refused.
C6_CommaDecimal ==
    (Called /\ transform_name = "ixt:num-comma-decimal")
        => /\ CommaDecimalShape(raw_value)
                => LET b == Body(raw_value)
                       c == FirstIndex(b, {","})
                       int_digits == OnlyDigits(SubSeq(b, 1, c - 1))
                       frac_digits == SubSeq(b, c + 1, Len(b))
                       d == FirstIndex(result.value, {"."})
                   IN  /\ result = Returned(SignOf(b) \o int_digits \o <<".">> \o frac_digits)
                       /\ IntOf(OnlyDigits(SubSeq(result.value, 1, d - 1))) = IntOf(int_digits)
                       /\ SubSeq(result.value, d + 1, Len(result.value)) = frac_digits
           /\ Count(raw_value, LAMBDA x : x = ",") >= 2 => result.tag = "ValueError"
           /\ result.tag = "ok" => IsFloat(result.value)

\* C6 witness: '1 234,56' gives '1234.56'.
C6_Witness ==
    /\ pc = "transform_returned" /\ transform_name = "ixt:num-comma-decimal"
    /\ raw_value = <<"1", " ", "2", "3", "4", ",", "5", "6">>
    /\ result = Returned(<<"1", "2", "3", "4", ".", "5", "6">>)

\* optional sign, digits, at most one dot, at least one digit
DecimalNumeral(s) ==
    LET b == DropSign(s)
    IN  /\ \A i \in 1..Len(b) : IsDigit(b[i]) \/ b[i] = "."
        /\ Count(b, LAMBDA x : x = ".") <= 1
        /\ \E i \in 1..Len(b) : IsDigit(b[i])

\* C7: numeric-dot-decimal either fails or returns a decimal numeral: the input
\* without its spaces and commas, made of an optional sign, digits and at most
\* one dot.
C7_DotDecimalIsNumeral ==
    (Called /\ transform_name = "ixt:num-dot-decimal" /\ result.tag = "ok")
        => /\ result.value = Remove(Remove(Body(raw_value), " "), ",")
           /\ DecimalNumeral(result.value)

\* digit groups separated by commas, one dot, then digits
DotDecimalShape(s) ==
    LET b == Body(s)
        d == FirstIndex(b, {"."})
    IN  /\ d > 1 /\ d < Len(b)
        /\ \A i \in 1..Len(b) : i # d => IsDigit(b[i]) \/ (i < d /\ b[i] = ",")
        /\ IsDigit(b[1])
        /\ \A i \in 2..d : ~IsDigit(b[i]) => IsDigit(b[i - 1])

HasUnitSuffix(s) ==
    LET b == Body(s)
    IN  Len(b) >= 3 /\ \A i \in (Len(b) - 2)..Len(b) : b[i] \in UpperAZ

\* C8: numeric-with-unit-suffix strips the trailing three-letter code and gives
\* what the variant of the remainder's decimal marker gives: numeric-comma-decimal
\* on a comma-decimal remainder, numeric-dot-decimal on a dot-decimal remainder
\* (comma thousands separators allowed); without a trailing code it fails.
C8_UnitSuffixDispatch ==
    (Called /\ transform_name = "ixt:num-unit-decimal")
        => LET b == Body(raw_value)
               remainder == SubSeq(b, 1, Len(b) - 3)
           IN  IF HasUnitSuffix(raw_value)
               THEN /\ (CommaDecimalShape(remainder) /\ IsDigit(b[1]))
                          => result = _num_comma_decimal(remainder)
                    /\ DotDecimalShape(remainder) => result = _num_dot_decimal(remainder)
               ELSE result.tag = "ValueError"

\* the characters a number is written with
NumericText(s) ==
    LET b == DropSign(Body(s))
    IN  \A i \in 1..Len(b) : IsDigit(b[i]) \/ b[i] \in {" ", ",", "."}

\* the input pattern of a transform; the boolean transforms state none
MatchesPattern(name, s) ==
    CASE name \in {"ixt:num-dot-decimal", "ixt:num-comma-decimal"} -> NumericText(s)
      [] name = "ixt:num-unit-decimal" -> HasUnitSuffix(s)
      [] name = "ixt:date-day-month-year" -> DateMatch(Body(s), ".")
      [] name \in {"ixt:date-day-month-year-slash", "ixt:date-month-day-year"} ->
            DateMatch(Body(s), "/")
      [] OTHER -> TRUE

IsPartOf(a, s) ==
    \E i \in 1..(Len(s) + 1) : \E j \in (i - 1)..Len(s) : SubSeq(s, i, j) = a

\* C9: a dispatched numeric, date or boolean transform never returns a value
\* for an input that does not match its input pattern: the call fails with a
\* ValueError whose message carries the offending text.
C9_NoCoercion ==
    (pc = "transform_returned"
       /\ transform_name \in TransformsYml \ {"ixt:normalize-space", "ixt:zerodash"}
       /\ ~MatchesPattern(transform_name, raw_value))
        => /\ result.tag = "ValueError"
           /\ result.arg # <<>> /\ IsPartOf(result.arg, raw_value)

WordCount(s) ==
    Cardinality({i \in 1..Len(s) : ~IsSpace(s[i]) /\ (i = 1 \/ IsSpace(s[i - 1]))})

\* single spaces between words, nothing at the ends, no other whitespace
Collapsed(s) ==
    /\ \A i \in 1..Len(s) : IsSpace(s[i]) => s[i] = " " /\ i \notin {1, Len(s)}
    /\ \A i \in 1..(Len(s) - 1) : ~(IsSpace(s[i]) /\ IsSpace(s[i + 1]))

\* C10: normalize-space, which is also what a fact without a declared
\* transform gets, keeps the words of the input, puts single spaces between
\* them, trims both ends, and applied to its own result changes nothing.
C10_NormalizeSpace ==
    (\/ pc = "value_returned" /\ transform_name = "None"
     \/ Called /\ transform_name = "ixt:normalize-space")
        => /\ result.tag = "ok"
           /\ Collapsed(result.value)
           /\ WordCount(result.value) = WordCount(raw_value)
           /\ SelectSeq(result.value, LAMBDA x : ~IsSpace(x))
                = SelectSeq(raw_value, LAMBDA x : ~IsSpace(x))
           /\ _normalize_space(result.value) = result

\* C10 witness: a fact without a declared transform whose text needs collapsing.
C10_Witness ==
    /\ pc = "value_returned" /\ transform_name = "None"
    /\ raw_value = <<"a", "\t", "a">>
    /\ result = Returned(<<"a", " ", "a">>)

-----------------------------------------------------------------------------
(* Properties of extraction.                                               *)

\* every content region of the document, in document order
Regions == sdt_elements(docx.body)

\* extract_docx.py got its facts and is about to exit
Extracted == pc = "extract_main_exit"

Positions == [i \in 1..Len(extractor_facts) |-> extractor_facts[i].position]

\* the raw facts are in strictly increasing position order, each position is
\* the index of a region, and a region with a tag gives the fact at its index
C11_Positions ==
    /\ \A i \in 1..Len(Positions) :
          /\ Positions[i] \in 1..Len(Regions)
          /\ i > 1 => Positions[i - 1] < Positions[i]
    /\ \A k \in 1..Len(Regions) :
          Regions[k].tag # "None" =>
             \E i \in 1..Len(Positions) :
                /\ Positions[i] = k
                /\ extractor_facts[i].factId = Regions[k].tag

\* a region without a tag gives no raw fact
C11_TaglessSkipped ==
    \A k \in 1..Len(Regions) :
       Regions[k].tag = "None" => \A i \in 1..Len(Positions) : Positions[i] # k

\* C11: regions are numbered from 1 in document order over all regions; a
\* tagless region gives no raw fact and shifts no position, so the raw facts
\* are in strictly increasing position order and each fact's position is the
\* index of its region among all regions of the document.
C11_RegionsNumbered == Extracted => C11_Positions /\ C11_TaglessSkipped

\* the numbering half of C11 taken alone
C11_PositionsHold == Extracted => C11_Positions

\* the characters of all text runs of the region at index k, in document order
RegionText(k) == Concat(Regions[k].text_parts)

\* raw is text without the whitespace at its two ends
TrimmedOf(raw, text) ==
    /\ \E a \in 0..Len(text) :
          /\ a + Len(raw) <= Len(text)
          /\ SubSeq(text, a + 1, a + Len(raw)) = raw
          /\ \A j \in 1..a : IsSpace(text[j])
          /\ \A j \in (a + Len(raw) + 1)..Len(text) : IsSpace(text[j])
    /\ raw # <<>> => ~IsSpace(raw[1]) /\ ~IsSpace(raw[Len(raw)])

\* C12 as stated: rawText is exactly the concatenation of the region's text
\* runs, nothing inserted and nothing removed, leading and trailing
\* whitespace included.
C12_RawTextIsConcatenation ==
    Extracted =>
       \A i \in 1..Len(extractor_facts) :
          extractor_facts[i].rawText = RegionText(Positions[i])

\* C12 amended: rawText is the concatenation of the region's text runs with
\* the whitespace at its two ends removed: nothing is inserted between runs,
\* nothing else is removed, and how the text is split over runs is immaterial.
C12_RawTextIsTrimmedConcatenation ==
    Extracted =>
       \A i \in 1..Len(extractor_facts) :
          TrimmedOf(extractor_facts[i].rawText, RegionText(Positions[i]))

\* C12 witness: a tagged region of two runs whose text starts with a space.
C12_Witness ==
    /\ Extracted
    /\ docx.body = <<Sdt("x", <<T(<<" ">>), T(<<"a", " ">>)>>)>>
    /\ extractor_facts = <<[factId |-> "x", rawText |-> <<"a">>, position |-> 1]>>

\* the package is no zip archive, or has no word/document.xml
NotADocument == docx.package \in {"not_zip", "no_document_xml"}

C13_Fails ==
    NotADocument /\ pc # "extract_main" =>
       /\ pc = "sys.exit(1)"
       /\ exit_code = 1
       /\ extractor_facts = <<>>

C13_SourceUntouched == docx' = docx

\* C13: on a package that is not a valid zip archive or lacks
\* word/document.xml extraction reports the error and ends with a non-zero
\* outcome without returning raw facts; extraction never modifies the source
\* document.
C13_ExtractionFormatError == []C13_Fails /\ [][C13_SourceUntouched]_vars

\* C13 witness: extraction ended on an archive without word/document.xml.
C13_Witness ==
    /\ docx.package = "no_document_xml"
    /\ pc = "sys.exit(1)"
    /\ exit_code = 1

-----------------------------------------------------------------------------
(* Properties of the emitted instance.                                     *)

\* save has returned: report.xbrl holds the instance of this run
Written == pc \in {"emitted", "validated", "run_ok"}

\* the children of the root element of report.xbrl
Children == SubSeq(report_xbrl.content, 3, Len(report_xbrl.content) - 1)

ChildrenOfKind(kind) == SelectSeq(Children, LAMBDA e : e.kind = kind)

Rank(kind) ==
    CASE kind = "schemaRef" -> 0 [] kind = "context" -> 1 [] kind = "unit" -> 2
      [] kind = "fact" -> 3 [] OTHER -> 4

\* C14: the root of the emitted instance has exactly one schema reference,
\* which comes first, then all contexts, then all units, then all facts,
\* and nothing else, whatever the sizes of the three sets.
C14_ChildOrder ==
    Written =>
       /\ WellFormed(report_xbrl.content)
       /\ Len(ChildrenOfKind("schemaRef")) = 1
       /\ Children[1].kind = "schemaRef"
       /\ \A i \in 1..Len(Children) : Rank(Children[i].kind) < 4
       /\ \A i, j \in 1..Len(Children) :
             i < j => Rank(Children[i].kind) <= Rank(Children[j].kind)

\* C14 witness: an instance with two contexts, one unit and two facts.
C14_Witness ==
    /\ Written
    /\ [i \in 1..Len(Children) |-> Children[i].kind]
         = <<"schemaRef", "context", "context", "unit", "fact", "fact">>

FactElements == ChildrenOfKind("fact")

ContextElements == ChildrenOfKind("context")

UnitElements == ChildrenOfKind("unit")

HasPrefix(concept) == Contains(concept, ":")

PrefixOf(concept) == SubSeq(concept, 1, FirstIndex(concept, {":"}) - 1)

LocalNameOf(concept) ==
    SubSeq(concept, FirstIndex(concept, {":"}) + 1, Len(concept))

\* the namespace bindings give the concept of the fact a namespace
Resolvable(fact) ==
    HasPrefix(fact.concept) => namespaces(PrefixOf(fact.concept)) # "None"

\* the canonical facts the emitter was given that have a namespace
ResolvableFacts == SelectSeq(canonical_file.content, Resolvable)

\* C15: the instance has exactly one context element per loaded context,
\* with its id, entity identifier and period, exactly one unit element per
\* loaded unit, with its measure, and exactly one element per canonical fact
\* that has a namespace: named by the local name of the concept, with the
\* contextRef of the fact, with a unitRef iff the fact has one, with decimals
\* iff the fact has them (0 and negative values too), and with the canonical
\* value as its text.
C15_ElementsPerDefinition ==
    Written =>
       /\ Len(ContextElements) = Len(contexts)
       /\ \A i \in 1..Len(contexts) :
             /\ ContextElements[i].id = contexts[i].id
             /\ ContextElements[i].text
                  = <<contexts[i].scheme, contexts[i].identifier>>
                    \o (IF contexts[i].period = "instant"
                        THEN <<"instant", contexts[i].instant>>
                        ELSE <<"startDate", contexts[i].startDate,
                               "endDate", contexts[i].endDate>>)
       /\ Len(UnitElements) = Len(units)
       /\ \A i \in 1..Len(units) :
             /\ UnitElements[i].id = units[i].id
             /\ UnitElements[i].text = <<units[i].measure>>
       /\ Len(FactElements) = Len(ResolvableFacts)
       /\ \A i \in 1..Len(ResolvableFacts) :
             LET fact == ResolvableFacts[i]
                 e == FactElements[i]
             IN  /\ e.name = LocalNameOf(fact.concept)
                 /\ e.contextRef = fact.contextRef
                 /\ e.unitRef = (IF fact.unitRef \in {"None", ""} THEN NoAttr
                                 ELSE fact.unitRef)
                 /\ e.decimals = (IF fact.decimals = "None" THEN NoAttr
                                  ELSE fact.decimals)
                 /\ e.text = fact.canonicalValue

\* C15 witness: an instance with a fact of decimals 0 and no unit and a fact
\* of decimals -2 and unit EUR.
C15_Witness ==
    /\ Written
    /\ Len(contexts) = 2 /\ Len(units) = 1
    /\ Len(FactElements) = 2
    /\ FactElements[1].decimals = "0" /\ FactElements[1].unitRef = NoAttr
    /\ FactElements[2].decimals = "-2" /\ FactElements[2].unitRef = "EUR"

\* C16: a concept with a bound prefix is emitted in the namespace of the
\* prefix, a concept without a prefix in the default taxonomy namespace, and
\* a fact whose prefix is not bound is left out while every other fact of
\* the batch, before and after it, is emitted and the emission completes.
C16_NamespaceResolution ==
    Written =>
       /\ Len(FactElements) = Len(ResolvableFacts)
       /\ \A i \in 1..Len(ResolvableFacts) :
             LET concept == ResolvableFacts[i].concept
             IN  /\ FactElements[i].name = LocalNameOf(concept)
                 /\ FactElements[i].ns
                      = (IF HasPrefix(concept) THEN namespaces(PrefixOf(concept))
                         ELSE namespaces(<<"g", "r", "i">>))
                 /\ FactElements[i].ns # "None"

\* C16 witness: a fact with an unbound prefix, dropped, and after it a fact
\* without a prefix, emitted in the default namespace; the run completed.
C16_Witness ==
    /\ pc = "run_ok"
    /\ Len(canonical_file.content) = 2
    /\ canonical_file.content[1].factId = "company_name"
    /\ canonical_file.content[2].factId = "report_date"
    /\ Len(FactElements) = 1
    /\ FactElements[1].name = <<"D", "a", "t", "e">>
    /\ FactElements[1].ns = namespaces(<<"g", "r", "i">>)

\* the fact definition whose concept names the element
FactIdOf(e) ==
    CHOOSE fid \in DOMAIN facts_registry :
       LocalNameOf(facts_registry[fid].concept) = e.name

RegistryIndex(fid) == CHOOSE i \in 1..Len(facts_order) : facts_order[i] = fid

\* C17: the fact elements of the instance are in the order in which the
\* fact-definition registry is iterated, whatever the order of the tagged
\* regions in the document.
C17_RegistryOrder ==
    Written =>
       \A i, j \in 1..Len(FactElements) :
          i < j => RegistryIndex(FactIdOf(FactElements[i]))
                     <= RegistryIndex(FactIdOf(FactElements[j]))

-----------------------------------------------------------------------------
(* Properties of the write of the instance and of validation.              *)

\* what this run writes to report.xbrl, once the emitter has its configuration
NewReport == File(tostring(emit(contexts, units, canonical_file.content)))

\* C18: the emitted instance is written atomically: at every moment, also
\* after a failure part-way through the write, report.xbrl is absent, or
\* holds what it held before the run, or holds the complete new instance.
C18_AtomicWrite ==
    \/ report_xbrl \in {NoFile, PreviousReport}
    \/ pc \in {"save_write", "emitted", "validated", "run_ok", "run_failed"}
       /\ report_xbrl = NewReport

\* the three artifacts of a run
Artifacts == <<raw_file, canonical_file, report_xbrl>>

C19_ExitZero ==
    /\ Written => exit_code \in {-1, 0}
    /\ pc = "run_ok" <=> exit_code = 0
    /\ Written =>
          raw_file.exists /\ canonical_file.exists /\ report_xbrl = NewReport

C19_ValidationStep ==
    /\ Written => Artifacts' = Artifacts
    /\ pc = "validated" => pc' = "run_ok" /\ exit_code' = 0

\* C19: in an orchestrated run validation is advisory: once extraction,
\* normalization and emission have succeeded the run ends with exit code 0
\* whatever the validation step found, and the artifacts already written
\* stay as they are.
C19_ValidationIsAdvisory == []C19_ExitZero /\ [][C19_ValidationStep]_vars

\* C19 witness: the engine reported errors and the run ended with 0.
C19_Witness ==
    /\ pc = "run_ok" /\ exit_code = 0
    /\ validate /\ engine = "errors"
    /\ report_xbrl = NewReport

\* C20: without the engine, validation is the structural check alone and
\* fails only for an artifact that is not well-formed XML, both in the
\* orchestrated step and in validate_arelle.py run without --basic, which
\* then exits with 0 on a well-formed artifact.
C20_EngineAbsentFallsBack ==
    pc \in {"validated", "validate_main_exit"} /\ engine = "not_installed" =>
       /\ validation_passed = validate_basic_xml(report_xbrl)
       /\ pc = "validate_main_exit" =>
             exit_code = (IF validate_basic_xml(report_xbrl) THEN 0 ELSE 1)

-----------------------------------------------------------------------------
(* Properties of the outcome of a run.                                     *)

\* every stage of the run had facts to hand on and met no error
FullSuccess ==
    /\ extractor_facts # <<>>
    /\ errors = <<>>
    /\ canonical_file.exists /\ canonical_file.content # <<>>
    /\ report_xbrl = NewReport

\* C21: the orchestrated run exits with 0 only on full success: never when a
\* stage yields no usable fact or a normalization or emission error occurs,
\* and in particular never when the emitted instance has no fact element.
C21_ZeroOnlyOnFullSuccess ==
    exit_code = 0 => FullSuccess /\ FactElements # <<>>

\* C21 without its last part: a run that exits with 0 had facts in every
\* stage before emission, no error, and wrote the instance.
C21_StagesSucceeded == exit_code = 0 => FullSuccess

\* a readable document none of whose content regions has a tag
NoTaggedRegion ==
    docx.package = "ok" /\ \A k \in 1..Len(Regions) : Regions[k].tag = "None"

\* normalization, emission and validation have not started
OnlyExtracted ==
    /\ raw_facts = <<>> /\ idx = 0 /\ canonical_facts = <<>> /\ errors = <<>>
    /\ canonical_file = NoFile
    /\ contexts = <<>> /\ units = <<>>
    /\ report_xbrl \in {NoFile, PreviousReport}
    /\ engine = "unused" /\ validation_passed = "unset"

\* C22: the full pipeline on a document with no tagged content region (no
\* region at all, or tagless regions only) reports the failure of
\* extraction, ends with a non-zero exit code, and runs none of
\* normalization, emission and validation.
C22_NoTaggedRegionFails ==
    NoTaggedRegion /\ pc # "extract" =>
       /\ pc = "run_failed"
       /\ exit_code = 1
       /\ extractor_facts = <<>> /\ raw_file = NoFile
       /\ OnlyExtracted

\* C22 witness: the run failed on a document of tagless regions.
C22_Witness ==
    /\ NoTaggedRegion /\ Len(docx.body) = 2
    /\ pc = "run_failed" /\ exit_code = 1

\* extraction has run and failed: the document could not be read, or gave
\* no raw fact
ExtractionFailed ==
    /\ pc \notin {"extract", "extract_main"}
    /\ extract(docx).status # "returned" \/ extract(docx).facts = <<>>

\* a configuration registry could not be loaded
ConfigNotLoaded == pc = "config_error"

\* C23: when extraction fails or a configuration registry cannot be loaded
\* the run ends at once and has written no artifact: raw_facts.json and
\* canonical_facts.json do not exist and report.xbrl is as it was.
C23_NoPartialOutput ==
    ExtractionFailed \/ ConfigNotLoaded =>
       /\ exit_code = 1
       /\ raw_file = NoFile
       /\ canonical_file = NoFile
       /\ report_xbrl \in {NoFile, PreviousReport}

-----------------------------------------------------------------------------
(* Properties of the canonical facts.                                      *)

\* the types a fact definition declares
FactTypes == {"monetary", "integer", "date", "boolean", "string"}

\* YYYY-MM-DD
IsoDateShape(s) ==
    /\ Len(s) = 10 /\ s[5] = "-" /\ s[8] = "-"
    /\ AllDigits(SubSeq(s, 1, 4)) /\ AllDigits(SubSeq(s, 6, 7))
    /\ AllDigits(SubSeq(s, 9, 10))

\* the value is in the lexical grammar of the type: a number for the numeric
\* types (sign, digits, decimal point, exponent), YYYY-MM-DD for date,
\* true or false for boolean, any text for string
LexicallyValid(type, value) ==
    CASE type \in {"monetary", "integer"} -> FloatNumber(DropSign(value))
      [] type = "date" -> IsoDateShape(value)
      [] type = "boolean" ->
           value \in {<<"t", "r", "u", "e">>, <<"f", "a", "l", "s", "e">>}
      [] OTHER -> TRUE

\* C24: the canonicalValue normalize computes for a raw fact satisfies the
\* lexical grammar of the type declared in the fact definition, for every
\* combination of declared type and declared or absent transform.
C24_ValueFitsType ==
    pc = "value_returned" /\ result.tag = "ok" =>
       \A type \in FactTypes : LexicallyValid(type, result.value)

\* C24 for the numeric types with a numeric transform only
C24_NumericTransformFitsNumericType ==
    (/\ pc = "value_returned" /\ result.tag = "ok"
     /\ transform_name \in {"ixt:num-dot-decimal", "ixt:num-comma-decimal",
                            "ixt:num-unit-decimal"})
        => LexicallyValid("monetary", result.value)

\* C24 for the date type with a date transform only
C24_DateTransformFitsDateType ==
    (pc = "value_returned" /\ result.tag = "ok" /\ transform_name \in DateTransforms)
        => LexicallyValid("date", result.value)

-----------------------------------------------------------------------------
(* Properties of the order of the stages.                                  *)

\* the stage a position of the run belongs to: 1 extract, 2 normalize,
\* 3 emit, 4 validate, 5 the end of a successful run; 0 for a run that failed
StageOf(p) ==
    CASE p = "extract" -> 1
      [] p \in {"normalize_load", "normalize", "normalize_returned"} -> 2
      [] p \in {"emit", "save", "save_write", "emitted"} -> 3
      [] p = "validated" -> 4
      [] p = "run_ok" -> 5
      [] OTHER -> 0

C25_Handoff ==
    /\ StageOf(pc) >= 2 => raw_file.exists /\ raw_file.content # <<>>
    /\ StageOf(pc) = 2 => ~canonical_file.exists
    /\ StageOf(pc) >= 3 => canonical_file.exists /\ canonical_file.content # <<>>
    /\ StageOf(pc) \in {1, 2} /\ pc # "emit" =>
          report_xbrl \in {NoFile, PreviousReport} /\ engine = "unused"
    /\ pc \in {"emit", "save", "save_write", "emitted"} => engine = "unused"
    /\ engine # "unused" => validate /\ report_xbrl = NewReport
    /\ StageOf(pc) = 0 => exit_code = 1

C25_Step ==
    /\ exit_code = -1
    /\ StageOf(pc) # 0
    /\ StageOf(pc') # 0 => StageOf(pc') \in {StageOf(pc), StageOf(pc) + 1}
                          \/ (pc = "emitted" /\ pc' = "run_ok" /\ ~validate)
    /\ engine' # engine =>
          /\ pc = "emitted" /\ validate
          /\ report_xbrl = NewReport /\ WellFormed(report_xbrl.content)

\* C25: the stages of a run execute in the order extract, normalize, emit,
\* validate without overlap: a stage starts only after the stage before it
\* has succeeded and written its artifact, no stage starts after a failure,
\* and validation starts only when it was requested and report.xbrl has been
\* written completely and closed.
C25_StagesInOrder == []C25_Handoff /\ [][C25_Step]_vars

\* C25 witness: validation ran, after the three stages before it.
C25_Witness ==
    /\ pc = "validated" /\ validate /\ engine = "clean"
    /\ raw_file.exists /\ canonical_file.exists /\ report_xbrl = NewReport

-----------------------------------------------------------------------------
(* Properties of tagless regions and of repeated extraction.               *)

\* the indexes of the regions that have a tag of their own
TaggedIndexes == {k \in 1..Len(Regions) : Regions[k].tag # "None"}

\* C26: a region without a tag of its own is skipped and is never fatal,
\* whatever the structure of the document: the raw facts are those of the
\* regions that have their own tag, each under its own tag, so a tagless
\* region around a tagged one gives no fact of its own, and extraction goes
\* on to the regions after it.
C26_OwnTagOnly ==
    /\ docx.package = "ok" /\ pc # "extract_main" => Extracted
    /\ Extracted =>
          /\ {Positions[i] : i \in 1..Len(Positions)} = TaggedIndexes
          /\ \A i \in 1..Len(extractor_facts) :
                extractor_facts[i].factId = Regions[Positions[i]].tag

\* the part of C26 that does not involve nesting: on documents without
\* nested regions the raw facts are those of the tagged regions
C26_FlatDocuments ==
    Extracted /\ (\A k \in 1..Len(Regions) : ~Regions[k].nested) =>
       {Positions[i] : i \in 1..Len(Positions)} = TaggedIndexes

-----------------------------------------------------------------------------
(* Properties of the validators.                                           *)

\* the instances that were written completely
CompleteInstances ==
    {File(tostring(emit(ctxs, us, fs))) :
        ctxs \in SubLists(AllContexts), us \in SubLists(AllUnits), fs \in OkFacts}

\* validate_arelle.py --basic has run
BasicChecked == pc = "validate_main_exit" /\ basic

\* C27 as stated: the structural check passes iff the artifact is well-formed
\* and holds as many context and unit elements as contexts and units are
\* configured.
C27_CountsChecked ==
    BasicChecked =>
       (validation_passed <=>
           /\ report_xbrl \in CompleteInstances
           /\ Len(ContextElements) = Len(AllContexts)
           /\ Len(UnitElements) = Len(AllUnits))

\* C27 amended: the structural check passes iff the artifact exists and is
\* well-formed XML; the context and unit elements are counted for the
\* report only, so a well-formed artifact with a missing context or unit
\* element passes, and the exit code follows the outcome.
C27_WellFormedOnly ==
    BasicChecked =>
       /\ validation_passed <=> report_xbrl \in CompleteInstances
       /\ exit_code = (IF report_xbrl \in CompleteInstances THEN 0 ELSE 1)

\* C27 witness: a well-formed instance without any context element passed.
C27_Witness ==
    /\ BasicChecked
    /\ report_xbrl \in CompleteInstances
    /\ ContextElements = <<>> /\ Len(UnitElements) = 1
    /\ validation_passed = TRUE /\ exit_code = 0

-----------------------------------------------------------------------------
(* Properties of normalization as a whole.                                 *)

\* the raw facts of raw_facts.json that normalize cannot turn into a
\* canonical fact
FailingFacts ==
    {i \in 1..Len(raw_file.content) :
        normalize_fact(raw_file.content[i]).errors # <<>>}

\* C28: if at least one raw fact fails, the process ends with a non-zero
\* exit code before canonical_facts.json is written and before emission
\* starts; so whenever emission runs there are as many canonical facts as raw
\* facts, in the same order.
C28_AllOrNothing ==
    /\ FailingFacts # {} /\ pc \notin {"normalize_load", "normalize"} =>
          /\ pc \in {"normalize_exit", "config_error"}
          /\ exit_code = 1
          /\ canonical_file = NoFile
          /\ contexts = <<>> /\ units = <<>>
          /\ report_xbrl \in {NoFile, PreviousReport}
    /\ StageOf(pc) >= 3 =>
          /\ Len(canonical_file.content) = Len(raw_file.content)
          /\ \A i \in 1..Len(raw_file.content) :
                /\ canonical_file.content[i].factId = raw_file.content[i].factId
                /\ canonical_file.content[i].rawValue = raw_file.content[i].rawText

\* C28 witness: one raw fact normalized, the other failed, and the process
\* ended in normalize with nothing written.
C28_Witness ==
    /\ pc = "normalize_exit" /\ exit_code = 1
    /\ Len(raw_facts) = 2 /\ Len(canonical_facts) = 1 /\ Len(errors) = 1
    /\ canonical_file = NoFile

\* the file at xbrl_path parses as XML
WellFormedArtifact == report_xbrl.exists /\ WellFormed(report_xbrl.content)

\* Pipeline._step_validate has returned
StepValidated == pc \in {"validated", "step_validated"}

C29_WitnessFailed ==
    /\ pc = "step_validated"
    /\ engine = "load_failed"
    /\ report_xbrl.exists /\ ~WellFormedArtifact
    /\ validation_passed = FALSE

-----------------------------------------------------------------------------
(* Properties of an extractor that is called more than once.               *)

\* what extract() returns on a new extractor for the document
DocumentFacts == extract(docx).facts

\* fs + fs + ... + fs, n times
RECURSIVE Repeated(_, _)
Repeated(fs, n) == IF n = 0 THEN <<>> ELSE fs \o Repeated(fs, n - 1)

\* the extractor read the document on every call so far
ExtractorReturned == pc = "extractor" /\ docx.package = "ok"

\* C30: after n calls of extract() on one extractor over an unchanged document
\* with k tagged regions the fact list holds n*k entries, the k facts of the
\* tagged regions repeated n times in order, and save_json writes that list;
\* after the first call it holds exactly the k facts.
C30_TaggedTimesCalls ==
    ExtractorReturned =>
       /\ Len(extractor_facts) = calls * Cardinality(TaggedIndexes)
       /\ extractor_facts = Repeated(DocumentFacts, calls)
       /\ calls = 1 =>
             {extractor_facts[i].position : i \in 1..Len(extractor_facts)}
                = TaggedIndexes
       /\ raw_file.exists =>
             \E n \in 0..calls : raw_file.content = Repeated(DocumentFacts, n)

\* the accumulation of C30 by itself: the list is what a new extractor
\* returns, repeated once per call, and save_json writes such a list
C30_Accumulates ==
    ExtractorReturned =>
       /\ extractor_facts = Repeated(DocumentFacts, calls)
       /\ Len(extractor_facts) = calls * Len(DocumentFacts)
       /\ raw_file.exists =>
             \E n \in 0..calls : raw_file.content = Repeated(DocumentFacts, n)

\* no region without a tag encloses a tagged one
NoTaglessWrapper ==
    \A k \in 1..Len(Regions) :
       Regions[k].tag = "None" => Regions[k].tag_elements = <<>>

\* C30 holds as stated on the documents where no tagless region encloses a
\* tagged one
C30_WithoutTaglessWrapper ==
    ExtractorReturned /\ NoTaglessWrapper =>
       Len(extractor_facts) = calls * Cardinality(TaggedIndexes)

\* three calls on a document of two tagged regions: six entries, written
C30_Accumulated ==
    /\ ExtractorReturned /\ NoTaglessWrapper
    /\ calls = 3
    /\ Cardinality(TaggedIndexes) = 2
    /\ Len(extractor_facts) = 6
    /\ raw_file = File(extractor_facts)

=============================================================================
